---- MODULE Spec2Model ----
(***************************************************************************)
(* Model of the reference DistributedLock (solution text of                *)
(* challenges/distributed_lock.py): one lock manager per node, each with   *)
(* its own current_leader, lease_expiry and network_partitions, and a      *)
(* wall clock shared by all of them.  Node ids "node1", "node2", ... are   *)
(* modelled by 1, 2, ...; their lexicographic order is the numeric one.    *)
(***************************************************************************)
EXTENDS Integers, FiniteSets, Sequences, TLC

VARIABLES all_nodes, current_leader, lease_expiry, network_partitions, now,
          last, results, pc, constructed, frame

vars == <<all_nodes, current_leader, lease_expiry, network_partitions, now,
          last, results, pc, constructed, frame>>

\* ---------------------------------------------------------------- bounds
\* The clock stops advancing at MaxTime.
MaxTime == 3

\* At most MaxManagers managers are built from explicit arguments.
MaxManagers == 2

\* The lists handed to set_network_partition have at most MaxListLen
\* elements.
MaxListLen == 2

\* ------------------------------------------------------------- constants
\* nodes = ['node1', 'node2', 'node3']
NumNodes == 3
\* nodes = ['node1', 'node2', 'node3', 'node4', 'node5']
MaxNodes == 5
\* lease_duration=2
lease_duration == 2

\* Python's None, for current_leader, lease_expiry and "no node".
None == 0 - 1

\* The clusters of the partition scenarios: NumNodes up to MaxNodes nodes.
Clusters == {1..k : k \in NumNodes..MaxNodes}

\* ------------------------------------------------------------- functions
can_reach_node(self, node_id) == node_id \notin network_partitions[self]

\* Mutant of is_lease_valid: the lease runs out one tick early.
is_lease_valid_expiring_early(self) ==
    IF lease_expiry[self] = None THEN FALSE
    ELSE now + 1 < lease_expiry[self]

\* Mutant of is_lease_valid: the lease is still valid at now = lease_expiry.
is_lease_valid_at_expiry(self) ==
    IF lease_expiry[self] = None THEN FALSE
    ELSE now <= lease_expiry[self]

\* Mutant of is_lease_valid: the lease is never compared with the clock.
is_lease_valid_ignoring_clock(self) == lease_expiry[self] # None

is_lease_valid(self) ==
    IF lease_expiry[self] = None THEN FALSE
    ELSE now < lease_expiry[self]

\* Mutant of has_majority: exactly half of the nodes is a majority.
has_majority_with_half(supporters, total_nodes) ==
    supporters >= total_nodes \div 2

has_majority(supporters, total_nodes) == supporters > total_nodes \div 2

\* reachable_nodes = [n for n in self.all_nodes if self.can_reach_node(n)]
reachable_nodes(self) == {n \in all_nodes : can_reach_node(self, n)}

\* Mutant of votes: every other reachable node votes for self.
votes_from_all_reachable(self) ==
    1 + Cardinality({node \in reachable_nodes(self) : node # self})

\* Mutant of votes: the reachable nodes vote for the greater id.
votes_for_greater_id(self) ==
    1 + Cardinality({node \in reachable_nodes(self) :
                        node # self /\ node < self})

\* Mutant of votes: the vote for self is not counted.
votes_without_self(self) ==
    Cardinality({node \in reachable_nodes(self) :
                    node # self /\ self < node})

\* votes = 1, plus one for every reachable node with a greater id
votes(self) ==
    1 + Cardinality({node \in reachable_nodes(self) :
                        node # self /\ self < node})

is_leader(self) == current_leader[self] = self /\ is_lease_valid(self)

\* Mutant of get_leader: the recorded leader is returned unvalidated.
get_leader_unvalidated(self) == current_leader[self]

get_leader(self) ==
    IF is_lease_valid(self) THEN current_leader[self] ELSE None

\* Mutant of acquire_result: a valid lease only blocks when another node
\* holds it, the holder itself acquires again.
acquire_result_reentrant(self) ==
    IF current_leader[self] \notin {None, self} /\ is_lease_valid(self)
    THEN FALSE
    ELSE IF Cardinality(reachable_nodes(self))
               <= Cardinality(all_nodes) \div 2 THEN FALSE
    ELSE votes(self) > Cardinality(all_nodes) \div 2

\* Mutant of acquire_result: the test of a reachable majority is skipped.
acquire_result_no_reach_test(self) ==
    IF current_leader[self] # None /\ is_lease_valid(self) THEN FALSE
    ELSE votes(self) > Cardinality(all_nodes) \div 2

\* The value acquire_lock returns in the current state.
acquire_result(self) ==
    IF current_leader[self] # None /\ is_lease_valid(self) THEN FALSE
    ELSE IF Cardinality(reachable_nodes(self))
               <= Cardinality(all_nodes) \div 2 THEN FALSE
    ELSE votes(self) > Cardinality(all_nodes) \div 2

\* Record of the step just taken: the call, the node it ran on, the value it
\* returned and the node's current_leader / lease_expiry when it was entered.
Called(op, self, result) ==
    [op |-> op, node |-> self, result |-> result,
     leader_before |-> current_leader[self],
     expiry_before |-> lease_expiry[self]]

\* Record of a step that is no call on a lock manager.
NoCall(op) ==
    [op |-> op, node |-> None, result |-> FALSE,
     leader_before |-> None, expiry_before |-> None]

\* The local variables of an acquire_lock call that is not running.
NoFrame ==
    [pc |-> "idle", self |-> None, i |-> 0, reachable_nodes |-> {},
     seen |-> {}]

\* No manager was built from explicit constructor arguments, no call is
\* in progress.
Quiet ==
    /\ constructed = <<>>
    /\ frame = NoFrame

\* ------------------------------------------------------------------ Init
Fresh ==
    /\ now = 0
    /\ current_leader = [n \in all_nodes |-> None]
    /\ lease_expiry = [n \in all_nodes |-> None]
    /\ network_partitions = [n \in all_nodes |-> {}]

Init ==
    /\ all_nodes = 1..NumNodes
    /\ Fresh
    /\ last = NoCall("init")
    /\ results = <<>>
    /\ pc = [n \in all_nodes |-> "created"]
    /\ Quiet

\* --------------------------------------------------------------- actions
\* Mutant of acquire_lock_call: the winner's lease starts expired.
acquire_lock_call_stale_lease(self) ==
    /\ IF acquire_result(self)
       THEN /\ current_leader' = [current_leader EXCEPT ![self] = self]
            /\ lease_expiry' = [lease_expiry EXCEPT ![self] = now]
       ELSE UNCHANGED <<current_leader, lease_expiry>>
    /\ last' = Called("acquire_lock", self, acquire_result(self))

\* Mutant of acquire_lock_call: a failed call forgets the recorded leader.
acquire_lock_call_clearing_on_failure(self) ==
    /\ IF acquire_result(self)
       THEN /\ current_leader' = [current_leader EXCEPT ![self] = self]
            /\ lease_expiry' = [lease_expiry EXCEPT
                                   ![self] = now + lease_duration]
       ELSE /\ current_leader' = [current_leader EXCEPT ![self] = None]
            /\ lease_expiry' = [lease_expiry EXCEPT ![self] = None]
    /\ last' = Called("acquire_lock", self, acquire_result(self))

\* Mutant of acquire_lock_call: the winner is recorded on every manager.
acquire_lock_call_shared(self) ==
    /\ IF acquire_result(self)
       THEN /\ current_leader' = [n \in all_nodes |-> self]
            /\ lease_expiry' = [n \in all_nodes |-> now + lease_duration]
       ELSE UNCHANGED <<current_leader, lease_expiry>>
    /\ last' = Called("acquire_lock", self, acquire_result(self))

acquire_lock_call(self) ==
    /\ IF acquire_result(self)
       THEN /\ current_leader' = [current_leader EXCEPT ![self] = self]
            /\ lease_expiry' = [lease_expiry EXCEPT
                                   ![self] = now + lease_duration]
       ELSE UNCHANGED <<current_leader, lease_expiry>>
    /\ last' = Called("acquire_lock", self, acquire_result(self))

acquire_lock(self) ==
    /\ acquire_lock_call(self)
    /\ UNCHANGED <<all_nodes, network_partitions, now, results, pc,
                 constructed, frame>>

\* Mutant of release_lock: True is returned, the state is left as it was.
release_lock_returning_only(self) ==
    /\ IF current_leader[self] = self
       THEN /\ UNCHANGED <<current_leader, lease_expiry>>
            /\ last' = Called("release_lock", self, TRUE)
       ELSE /\ UNCHANGED <<current_leader, lease_expiry>>
            /\ last' = Called("release_lock", self, FALSE)
    /\ UNCHANGED <<all_nodes, network_partitions, now, results, pc,
                   constructed, frame>>

\* Mutant of release_lock: lease_expiry is left behind.
release_lock_keeping_expiry(self) ==
    /\ IF current_leader[self] = self
       THEN /\ current_leader' = [current_leader EXCEPT ![self] = None]
            /\ UNCHANGED lease_expiry
            /\ last' = Called("release_lock", self, TRUE)
       ELSE /\ UNCHANGED <<current_leader, lease_expiry>>
            /\ last' = Called("release_lock", self, FALSE)
    /\ UNCHANGED <<all_nodes, network_partitions, now, results, pc,
                   constructed, frame>>

\* Mutant of release_lock: the state is cleared whoever is recorded.
release_lock_unconditional(self) ==
    /\ current_leader' = [current_leader EXCEPT ![self] = None]
    /\ lease_expiry' = [lease_expiry EXCEPT ![self] = None]
    /\ last' = Called("release_lock", self, TRUE)
    /\ UNCHANGED <<all_nodes, network_partitions, now, results, pc,
                   constructed, frame>>

\* Mutant of release_lock: only a leader with a valid lease releases.
release_lock_valid_lease_only(self) ==
    /\ IF is_leader(self)
       THEN /\ current_leader' = [current_leader EXCEPT ![self] = None]
            /\ lease_expiry' = [lease_expiry EXCEPT ![self] = None]
            /\ last' = Called("release_lock", self, TRUE)
       ELSE /\ UNCHANGED <<current_leader, lease_expiry>>
            /\ last' = Called("release_lock", self, FALSE)
    /\ UNCHANGED <<all_nodes, network_partitions, now, results, pc,
                   constructed, frame>>

release_lock(self) ==
    /\ IF current_leader[self] = self
       THEN /\ current_leader' = [current_leader EXCEPT ![self] = None]
            /\ lease_expiry' = [lease_expiry EXCEPT ![self] = None]
            /\ last' = Called("release_lock", self, TRUE)
       ELSE /\ UNCHANGED <<current_leader, lease_expiry>>
            /\ last' = Called("release_lock", self, FALSE)
    /\ UNCHANGED <<all_nodes, network_partitions, now, results, pc,
                 constructed, frame>>

\* Mutant of extend_lease: the new lease runs from the old expiry.
extend_lease_from_old_expiry(self) ==
    /\ IF current_leader[self] # self
       THEN /\ UNCHANGED <<current_leader, lease_expiry>>
            /\ last' = Called("extend_lease", self, FALSE)
       ELSE IF Cardinality(reachable_nodes(self))
                  <= Cardinality(all_nodes) \div 2
       THEN /\ current_leader' = [current_leader EXCEPT ![self] = None]
            /\ lease_expiry' = [lease_expiry EXCEPT ![self] = None]
            /\ last' = Called("extend_lease", self, FALSE)
       ELSE /\ lease_expiry' = [lease_expiry EXCEPT
                                   ![self] = @ + lease_duration]
            /\ UNCHANGED current_leader
            /\ last' = Called("extend_lease", self, TRUE)
    /\ UNCHANGED <<all_nodes, network_partitions, now, results, pc,
                   constructed, frame>>

\* Mutant of extend_lease: stepping down also forgets the unreachable set.
extend_lease_healing_on_step_down(self) ==
    /\ IF current_leader[self] # self
       THEN /\ UNCHANGED <<current_leader, lease_expiry, network_partitions>>
            /\ last' = Called("extend_lease", self, FALSE)
       ELSE IF Cardinality(reachable_nodes(self))
                  <= Cardinality(all_nodes) \div 2
       THEN /\ current_leader' = [current_leader EXCEPT ![self] = None]
            /\ lease_expiry' = [lease_expiry EXCEPT ![self] = None]
            /\ network_partitions' = [network_partitions EXCEPT ![self] = {}]
            /\ last' = Called("extend_lease", self, FALSE)
       ELSE /\ lease_expiry' = [lease_expiry EXCEPT
                                   ![self] = now + lease_duration]
            /\ UNCHANGED <<current_leader, network_partitions>>
            /\ last' = Called("extend_lease", self, TRUE)
    /\ UNCHANGED <<all_nodes, now, results, pc, constructed, frame>>

\* Mutant of extend_lease: a leader renews without the majority test.
extend_lease_no_step_down(self) ==
    /\ IF current_leader[self] = self
       THEN /\ lease_expiry' = [lease_expiry EXCEPT
                                   ![self] = now + lease_duration]
            /\ UNCHANGED current_leader
            /\ last' = Called("extend_lease", self, TRUE)
       ELSE /\ UNCHANGED <<current_leader, lease_expiry>>
            /\ last' = Called("extend_lease", self, FALSE)
    /\ UNCHANGED <<all_nodes, network_partitions, now, results, pc,
                 constructed, frame>>

extend_lease(self) ==
    /\ IF current_leader[self] # self
       THEN /\ UNCHANGED <<current_leader, lease_expiry>>
            /\ last' = Called("extend_lease", self, FALSE)
       ELSE IF Cardinality(reachable_nodes(self))
                  <= Cardinality(all_nodes) \div 2
       THEN /\ current_leader' = [current_leader EXCEPT ![self] = None]
            /\ lease_expiry' = [lease_expiry EXCEPT ![self] = None]
            /\ last' = Called("extend_lease", self, FALSE)
       ELSE /\ lease_expiry' = [lease_expiry EXCEPT
                                   ![self] = now + lease_duration]
            /\ UNCHANGED current_leader
            /\ last' = Called("extend_lease", self, TRUE)
    /\ UNCHANGED <<all_nodes, network_partitions, now, results, pc,
                 constructed, frame>>

set_network_partition_call(self, unreachable_nodes) ==
    /\ network_partitions' =
           [network_partitions EXCEPT ![self] = unreachable_nodes]
    /\ last' = Called("set_network_partition", self, FALSE)

\* Mutant of set_network_partition: a leader that is cut off from the
\* majority steps down at once.
set_network_partition_stepping_down(self, unreachable_nodes) ==
    /\ set_network_partition_call(self, unreachable_nodes)
    /\ IF Cardinality(all_nodes \ unreachable_nodes)
             <= Cardinality(all_nodes) \div 2
       THEN /\ current_leader' = [current_leader EXCEPT ![self] = None]
            /\ lease_expiry' = [lease_expiry EXCEPT ![self] = None]
       ELSE UNCHANGED <<current_leader, lease_expiry>>
    /\ UNCHANGED <<all_nodes, now, results, pc, constructed, frame>>

set_network_partition(self, unreachable_nodes) ==
    /\ set_network_partition_call(self, unreachable_nodes)
    /\ UNCHANGED <<all_nodes, current_leader, lease_expiry, now, results, pc,
                   constructed, frame>>

\* is_leader(): a query, nothing is written
is_leader_call(self) ==
    /\ last' = Called("is_leader", self, is_leader(self))
    /\ UNCHANGED <<all_nodes, current_leader, lease_expiry,
                   network_partitions, now, results, pc, constructed, frame>>

\* get_leader(): a query, nothing is written
get_leader_call(self) ==
    /\ last' = Called("get_leader", self, get_leader(self))
    /\ UNCHANGED <<all_nodes, current_leader, lease_expiry,
                   network_partitions, now, results, pc, constructed, frame>>

\* Passage of wall-clock time (datetime.now() grows between calls).
Tick ==
    /\ now < MaxTime
    /\ now' = now + 1
    /\ last' = NoCall("tick")
    /\ UNCHANGED <<all_nodes, current_leader, lease_expiry,
                   network_partitions, results, pc, constructed, frame>>

Next ==
    \/ \E self \in all_nodes : acquire_lock(self)
    \/ \E self \in all_nodes : release_lock(self)
    \/ \E self \in all_nodes : extend_lease(self)
    \/ \E self \in all_nodes, unreachable_nodes \in SUBSET all_nodes :
           set_network_partition(self, unreachable_nodes)
    \/ \E self \in all_nodes : is_leader_call(self)
    \/ \E self \in all_nodes : get_leader_call(self)
    \/ Tick

Spec == Init /\ [][Next]_vars

\* ------------------------------------------- clusters already partitioned
\* A two-sided split: every node's unreachable set is the other side.
SplitOf(nodes, side) ==
    [n \in nodes |-> IF n \in side THEN nodes \ side ELSE side]

\* The unreachable sets left behind by set_network_partition calls on fresh
\* managers: any assignment for the NumNodes cluster, the two-sided splits
\* for the larger clusters.
PartitionConfigs(nodes) ==
    IF Cardinality(nodes) = NumNodes
    THEN [nodes -> SUBSET nodes]
    ELSE {SplitOf(nodes, side) : side \in SUBSET nodes}

PartitionedInit ==
    /\ all_nodes \in Clusters
    /\ now = 0
    /\ current_leader = [n \in all_nodes |-> None]
    /\ lease_expiry = [n \in all_nodes |-> None]
    /\ network_partitions \in PartitionConfigs(all_nodes)
    /\ last = NoCall("init")
    /\ results = <<>>
    /\ pc = [n \in all_nodes |-> "created"]
    /\ Quiet

PartitionedNext ==
    \/ \E self \in all_nodes : acquire_lock(self)
    \/ \E self \in all_nodes : release_lock(self)
    \/ \E self \in all_nodes : extend_lease(self)
    \/ Tick

PartitionedSpec == PartitionedInit /\ [][PartitionedNext]_vars

\* The partitioned clusters in which no manager was told that its own node
\* is unreachable (such a node is in no mutually reachable set).
LiveInit ==
    /\ PartitionedInit
    /\ \A n \in all_nodes : can_reach_node(n, n)

\* A node that can win keeps trying: acquire_lock is called again and again.
LiveSpec ==
    /\ LiveInit
    /\ [][PartitionedNext]_vars
    /\ \A self \in 1..MaxNodes :
          WF_vars(self \in all_nodes /\ acquire_lock(self))

\* ------------------------------------------------- test_single_leader
\* One manager per node, one thread per manager; each thread appends the
\* value of acquire_lock to results.
RaceInit ==
    /\ all_nodes \in Clusters
    /\ Fresh
    /\ last = NoCall("init")
    /\ results = <<>>
    /\ pc = [n \in all_nodes |-> "created"]
    /\ Quiet

\* t.start(), in the order of the list of locks
start(lock) ==
    /\ pc[lock] = "created"
    /\ \A earlier \in all_nodes : earlier < lock => pc[earlier] # "created"
    /\ pc' = [pc EXCEPT ![lock] = "started"]
    /\ last' = NoCall("start")
    /\ UNCHANGED <<all_nodes, current_leader, lease_expiry,
                   network_partitions, now, results, constructed, frame>>

\* results.append(lock.acquire_lock())
try_acquire(lock) ==
    /\ pc[lock] = "started"
    /\ acquire_lock_call(lock)
    /\ results' = Append(results, acquire_result(lock))
    /\ pc' = [pc EXCEPT ![lock] = "done"]
    /\ UNCHANGED <<all_nodes, network_partitions, now, constructed, frame>>

RaceNext ==
    \/ \E lock \in all_nodes : start(lock)
    \/ \E lock \in all_nodes : try_acquire(lock)
    \/ Tick

RaceSpec == RaceInit /\ [][RaceNext]_vars

\* ------------------------------------------------------- construction
\* Arguments handed to DistributedLock(node_id, nodes, lease_duration):
\* ids in and out of the list, lists with and without duplicates, leases
\* below, at and above zero.
ArgIds == 1..NumNodes
ArgLists == UNION {[1..k -> 1..2] : k \in 0..2}
ArgLeases == {0 - 1, 0, lease_duration}

ConstructInit ==
    /\ all_nodes = {}
    /\ Fresh
    /\ last = NoCall("init")
    /\ results = <<>>
    /\ pc = [n \in all_nodes |-> "created"]
    /\ Quiet

\* __init__: the arguments are stored as they come, nothing is raised.
DistributedLock(node_id, nodes, lease) ==
    /\ Len(constructed) < MaxManagers
    /\ constructed' = Append(constructed,
           [node_id |-> node_id, all_nodes |-> nodes,
            lease_duration |-> lease, current_leader |-> None,
            lease_expiry |-> None, network_partitions |-> {}])
    /\ last' = NoCall("__init__")
    /\ UNCHANGED <<all_nodes, current_leader, lease_expiry,
                   network_partitions, now, results, pc, frame>>

ConstructNext ==
    \E node_id \in ArgIds, nodes \in ArgLists, lease \in ArgLeases :
        DistributedLock(node_id, nodes, lease)

ConstructSpec == ConstructInit /\ [][ConstructNext]_vars

\* ------------------------------------- acquire_lock, statement by statement
\* One thread runs acquire_lock on a manager while another thread calls
\* set_network_partition on it; set_network_partition does not take
\* self.lock, so it runs between any two statements of acquire_lock.
\* frame.self stays the manager the two threads work on.

\* with self.lock: if self.current_leader and self._is_lease_valid()
acquire_lock_enter(self) ==
    /\ frame.pc = "idle"
    /\ frame.self \in {None, self}
    /\ IF current_leader[self] # None /\ is_lease_valid(self)
       THEN /\ last' = Called("acquire_lock", self, FALSE)
            /\ frame' = [NoFrame EXCEPT !.self = self]
       ELSE /\ last' = NoCall("acquire_lock_enter")
            /\ frame' = [pc |-> "scan", self |-> self, i |-> 1,
                         reachable_nodes |-> {},
                         seen |-> {network_partitions[self]}]
    /\ UNCHANGED <<all_nodes, current_leader, lease_expiry,
                   network_partitions, now, results, pc, constructed>>

\* one element of [n for n in self.all_nodes if self.can_reach_node(n)]
acquire_lock_scan(self) ==
    /\ frame.pc = "scan"
    /\ frame.self = self
    /\ frame' = [frame EXCEPT
           !.reachable_nodes =
               IF can_reach_node(self, frame.i) THEN @ \cup {frame.i} ELSE @,
           !.i = @ + 1,
           !.pc = IF frame.i = Cardinality(all_nodes)
                  THEN "decide" ELSE "scan"]
    /\ last' = NoCall("acquire_lock_scan")
    /\ UNCHANGED <<all_nodes, current_leader, lease_expiry,
                   network_partitions, now, results, pc, constructed>>

\* The value acquire_lock returns from the reachable_nodes it collected.
decide_result(self) ==
    IF Cardinality(frame.reachable_nodes) <= Cardinality(all_nodes) \div 2
    THEN FALSE
    ELSE 1 + Cardinality({node \in frame.reachable_nodes :
                             node # self /\ self < node})
           > Cardinality(all_nodes) \div 2

\* the majority test, the vote tally and the commit
acquire_lock_decide(self) ==
    /\ frame.pc = "decide"
    /\ frame.self = self
    /\ IF decide_result(self)
       THEN /\ current_leader' = [current_leader EXCEPT ![self] = self]
            /\ lease_expiry' = [lease_expiry EXCEPT
                                   ![self] = now + lease_duration]
       ELSE UNCHANGED <<current_leader, lease_expiry>>
    /\ last' = Called("acquire_lock", self, decide_result(self))
    /\ frame' = [NoFrame EXCEPT !.self = self]
    /\ UNCHANGED <<all_nodes, network_partitions, now, results, pc,
                   constructed>>

\* set_network_partition from the other thread, while the call is running
concurrent_set_network_partition(self, unreachable_nodes) ==
    /\ frame.pc # "idle"
    /\ frame.self = self
    /\ set_network_partition_call(self, unreachable_nodes)
    /\ frame' = [frame EXCEPT !.seen = @ \cup {unreachable_nodes}]
    /\ UNCHANGED <<all_nodes, current_leader, lease_expiry, now, results, pc,
                   constructed>>

ConcurrentNext ==
    \/ \E self \in all_nodes : acquire_lock_enter(self)
    \/ \E self \in all_nodes : acquire_lock_scan(self)
    \/ \E self \in all_nodes : acquire_lock_decide(self)
    \/ \E self \in all_nodes, unreachable_nodes \in SUBSET all_nodes :
           concurrent_set_network_partition(self, unreachable_nodes)

ConcurrentSpec == Init /\ [][ConcurrentNext]_vars

\* ------------------------------------------------- test_network_partition
\* A cluster of any size of Clusters elects while whole, is then split in two
\* sides (every manager is told the other side, as in the loop of
\* set_network_partition calls of the test) and goes on.
partition(side) ==
    /\ network_partitions = [n \in all_nodes |-> {}]
    /\ side # {}
    /\ side # all_nodes
    /\ network_partitions' = SplitOf(all_nodes, side)
    /\ last' = NoCall("partition")
    /\ UNCHANGED <<all_nodes, current_leader, lease_expiry, now, results, pc,
                   constructed, frame>>

QuorumNext ==
    \/ \E self \in all_nodes : acquire_lock(self)
    \/ \E self \in all_nodes : extend_lease(self)
    \/ \E side \in SUBSET all_nodes : partition(side)
    \/ Tick

QuorumSpec == RaceInit /\ [][QuorumNext]_vars

\* ------------------------------------------------------------ elect_leader
\* The smallest of a non-empty set of node ids (sorted(...)[0]).
first_of(node_ids) ==
    CHOOSE c \in node_ids : \A other \in node_ids : c <= other

\* for candidate in sorted(nodes): return the first one that reaches a
\* majority, None when the loop ends
elect_leader(nodes, can_reach_func) ==
    LET total == Cardinality(nodes)
        reachable(candidate) ==
            Cardinality({n \in nodes : can_reach_func[candidate, n]})
        winners == {candidate \in nodes :
                       has_majority(reachable(candidate), total)}
    IN  IF winners = {} THEN None ELSE first_of(winners)

\* elect_leader(nodes, can_reach_func) on the nodes of the cluster, with the
\* managers' can_reach_node as the reachability relation
elect_leader_call ==
    /\ last' = [NoCall("elect_leader") EXCEPT
                    !.result = elect_leader(all_nodes,
                                  [a \in all_nodes, b \in all_nodes |->
                                      can_reach_node(a, b)])]
    /\ UNCHANGED <<all_nodes, current_leader, lease_expiry,
                   network_partitions, now, results, pc, constructed, frame>>

ElectNext ==
    \/ elect_leader_call
    \/ \E self \in all_nodes : acquire_lock(self)

ElectSpec == PartitionedInit /\ [][ElectNext]_vars

\* ------------------------------------- set_network_partition with its list
\* set(unreachable_nodes): the elements of the list, duplicates dropped
set(unreachable_nodes) ==
    {unreachable_nodes[i] : i \in 1..Len(unreachable_nodes)}

\* The lists of node ids of at most MaxListLen elements.
UnreachableLists == UNION {[1..k -> all_nodes] : k \in 0..MaxListLen}

\* The record of a call together with the list it was given.
CalledWith(op, self, result, argument) ==
    [op |-> op, node |-> self, result |-> result,
     leader_before |-> current_leader[self],
     expiry_before |-> lease_expiry[self],
     argument |-> argument]

\* Mutant of set_network_partition_of_list: the list is added to the
\* unreachable set.
set_network_partition_adding_list(self, unreachable_nodes) ==
    /\ network_partitions' =
           [network_partitions EXCEPT ![self] = @ \cup set(unreachable_nodes)]
    /\ last' = CalledWith("set_network_partition", self, FALSE,
                          unreachable_nodes)
    /\ UNCHANGED <<all_nodes, current_leader, lease_expiry, now, results, pc,
                   constructed, frame>>

\* self.network_partitions = set(unreachable_nodes)
set_network_partition_of_list(self, unreachable_nodes) ==
    /\ network_partitions' =
           [network_partitions EXCEPT ![self] = set(unreachable_nodes)]
    /\ last' = CalledWith("set_network_partition", self, FALSE,
                          unreachable_nodes)
    /\ UNCHANGED <<all_nodes, current_leader, lease_expiry, now, results, pc,
                   constructed, frame>>

ReachNext ==
    \/ \E self \in all_nodes, unreachable_nodes \in UnreachableLists :
           set_network_partition_of_list(self, unreachable_nodes)
    \/ \E self \in all_nodes : acquire_lock(self)
    \/ \E self \in all_nodes : extend_lease(self)

ReachSpec == Init /\ [][ReachNext]_vars

\* sum(results)
sum_results == Cardinality({i \in 1..Len(results) : results[i]})

\* ================================================================ claims
half == Cardinality(all_nodes) \div 2

AcquireReturned(self) == last.op = "acquire_lock" /\ last.node = self

\* C1: in every reachable state at most one node has current_leader equal
\* to its own id together with now < lease_expiry.
C1_AtMostOneLeader ==
    Cardinality({n \in all_nodes : is_leader(n)}) <= 1

\* C2: when every one of the freshly created managers has called
\* acquire_lock once, exactly one of the calls has returned True.
C2_ExactlyOneTrue ==
    (\A n \in all_nodes : pc[n] = "done") => sum_results = 1

\* A fully connected majority partition: a strict majority of the cluster
\* each member of which reaches exactly the members.
FullyConnectedMajority(members) ==
    /\ has_majority(Cardinality(members), Cardinality(all_nodes))
    /\ \A m \in members : reachable_nodes(m) = members

Smallest(members) == CHOOSE m \in members : \A other \in members : m <= other

\* C3: in a fully connected majority partition an acquire_lock that
\* returns True is the one of the member with the smallest id, and the
\* acquire_lock of that member fails only on its own valid lease.
C3_SmallestAloneWins ==
    \A members \in SUBSET all_nodes :
        (FullyConnectedMajority(members) /\ last.op = "acquire_lock"
            /\ last.node \in members)
        => /\ last.result => last.node = Smallest(members)
           /\ (last.node = Smallest(members) /\ ~last.result)
                  => is_leader(last.node)

\* The cluster is split in two sides, each node's unreachable set being
\* the other side.
IsSplit(side) ==
    /\ side # {}
    /\ side # all_nodes
    /\ network_partitions = SplitOf(all_nodes, side)

\* C4: while the cluster is split into sides, no node of one side is leader
\* at the same instant as a node of the other side.
C4_NoSplitBrain ==
    \A side \in SUBSET all_nodes :
        IsSplit(side) =>
            \A a \in side, b \in all_nodes \ side :
                ~(is_leader(a) /\ is_leader(b))

\* C5: an acquire_lock on a node that counts at most len(all_nodes) // 2
\* nodes as reachable returns False and leaves the node's current_leader
\* and lease_expiry as they were, so the node does not become leader.
C5_MinorityCannotWin ==
    [][\A self \in all_nodes :
          (AcquireReturned(self)' /\ Cardinality(reachable_nodes(self)) <= half)
          => /\ ~last'.result
             /\ current_leader'[self] = current_leader[self]
             /\ lease_expiry'[self] = lease_expiry[self]
             /\ (is_leader(self)' => is_leader(self))]_vars

\* C5 witness: a node of the 2-side of a 5-node cluster split 2-vs-3 has
\* called acquire_lock.
C5_Witness ==
    /\ all_nodes = 1..5
    /\ network_partitions = SplitOf(1..5, {1, 2})
    /\ last.op = "acquire_lock"
    /\ last.node = 1
    /\ ~last.result

\* The side of a two-sided split that self is on, when self is the smallest
\* id of a side holding a strict majority of the cluster.
SmallestOfMajoritySide(self, side) ==
    /\ self \in side
    /\ network_partitions = SplitOf(all_nodes, side)
    /\ has_majority(Cardinality(side), Cardinality(all_nodes))
    /\ self = Smallest(side)

\* C6: in a cluster split so that one side holds a strict majority,
\* acquire_lock on the smallest id of that side, with no valid lease
\* recorded there, returns True and makes it leader.
C6_MajorityCanWin ==
    [][\A self \in all_nodes :
          (/\ AcquireReturned(self)'
           /\ \E side \in SUBSET all_nodes : SmallestOfMajoritySide(self, side)
           /\ ~(current_leader[self] # None /\ is_lease_valid(self)))
          => (last'.result /\ is_leader(self)')]_vars

\* C6 witness: node3 of the 3-side of a 5-node cluster split 2-vs-3 has
\* acquired the lock.
C6_Witness ==
    /\ all_nodes = 1..5
    /\ network_partitions = SplitOf(1..5, {3, 4, 5})
    /\ last.op = "acquire_lock"
    /\ last.node = 3
    /\ last.result
    /\ is_leader(3)

\* C7: while a node holds the lock with a lease kept valid by extend_lease,
\* acquire_lock by any other node returns False.
C7_ExtensionKeepsOthersOut ==
    \A X \in all_nodes, Y \in all_nodes :
        (X # Y /\ is_leader(X) /\ AcquireReturned(Y)) => ~last.result

\* X acquired, did not renew, and more than lease_duration has passed.
LeaseLapsed(X) ==
    /\ current_leader[X] = X
    /\ lease_expiry[X] # None
    /\ now > lease_expiry[X]

\* C8 as stated: once the lease of X has lapsed, acquire_lock by any other
\* node Y returns True, Y is leader and X is not.
C8_AnyOtherNodeTakesOver ==
    \A X \in all_nodes, Y \in all_nodes :
        (X # Y /\ LeaseLapsed(X) /\ AcquireReturned(Y))
        => (last.result /\ is_leader(Y) /\ ~is_leader(X))

\* C8 amended: once the lease of X has lapsed, acquire_lock by another
\* node Y that records no valid lease of its own, reaches a strict majority
\* and collects more than len(all_nodes) // 2 votes (itself plus the
\* reachable nodes with a greater id) returns True; then Y is leader and X
\* is not.
C8_ExpiryEnablesReelection ==
    [][\A X \in all_nodes, Y \in all_nodes :
          (/\ X # Y
           /\ LeaseLapsed(X)
           /\ AcquireReturned(Y)'
           /\ ~(current_leader[Y] # None /\ is_lease_valid(Y))
           /\ Cardinality(reachable_nodes(Y)) > half
           /\ votes(Y) > half)
          => (last'.result /\ is_leader(Y)' /\ ~is_leader(X)')]_vars

\* C8 witness: node1 let its lease lapse and node2 has then acquired.
C8_Witness ==
    /\ LeaseLapsed(1)
    /\ last.op = "acquire_lock"
    /\ last.node = 2
    /\ last.result
    /\ last.leader_before = None
    /\ lease_expiry[2] = now + lease_duration
    /\ is_leader(2)
    /\ ~is_leader(1)

\* A strict majority of the cluster all of whose members reach each other.
MutuallyReachableMajority(members) ==
    /\ members \subseteq all_nodes
    /\ has_majority(Cardinality(members), Cardinality(all_nodes))
    /\ \A a \in members, b \in members : can_reach_node(a, b)

NoValidLease == \A n \in all_nodes : ~is_leader(n)

\* The mutually reachable majorities of which self is the smallest member.
MajoritiesLedBy(self) ==
    {members \in SUBSET all_nodes :
        /\ MutuallyReachableMajority(members)
        /\ self \in members
        /\ self = Smallest(members)}

\* C9: whenever no node holds a valid lease and a strict majority of the
\* cluster is mutually reachable, repeated acquire_lock attempts lead to a
\* state where some node of that majority is leader (the majorities are
\* taken by their smallest member, the unreachable sets staying as they
\* are).
C9_Liveness ==
    \A self \in 1..MaxNodes :
        (self \in all_nodes /\ NoValidLease /\ MajoritiesLedBy(self) # {})
            ~> (\A members \in MajoritiesLedBy(self) :
                    \E n \in members : is_leader(n))

\* C9 witness: after a lease has lapsed in a cluster whose reachable
\* majority is not the whole cluster, a node of that majority has acquired.
C9_Witness ==
    /\ last.op = "acquire_lock"
    /\ last.result
    /\ last.leader_before = last.node
    /\ last.expiry_before < now
    /\ \E members \in SUBSET all_nodes :
          /\ members # all_nodes
          /\ MutuallyReachableMajority(members)
          /\ last.node \in members
          /\ \A n \in all_nodes \ {last.node} : ~is_leader(n)

\* C10: extend_lease on a leader with a valid lease that reaches at most
\* half of the cluster returns False and clears current_leader and
\* lease_expiry, so is_leader() is False although the lease had not run
\* out; afterwards only a successful acquire_lock makes the node leader
\* again.
C10_StepDownOnLostMajority ==
    [][\A L \in all_nodes :
          /\ (/\ last'.op = "extend_lease"
               /\ last'.node = L
               /\ is_leader(L)
               /\ Cardinality(reachable_nodes(L)) <= half)
              => (/\ ~last'.result
                  /\ current_leader'[L] = None
                  /\ lease_expiry'[L] = None
                  /\ ~is_leader(L)')
          /\ (current_leader[L] = None /\ is_leader(L)')
              => (AcquireReturned(L)' /\ last'.result)]_vars

\* C10 witness: a leader whose lease had not run out has stepped down in
\* extend_lease because it reaches at most half of the cluster.
C10_Witness ==
    /\ last.op = "extend_lease"
    /\ ~last.result
    /\ last.leader_before = last.node
    /\ now < last.expiry_before
    /\ Cardinality(reachable_nodes(last.node)) <= half
    /\ current_leader[last.node] = None
    /\ lease_expiry[last.node] = None

\* C11: a node that is not leader (lease expired, released or stepped
\* down) becomes leader again only by an acquire_lock that returns True;
\* extend_lease after the expiry does not restore leadership.
C11_OnlyAcquireMakesLeader ==
    [][\A self \in all_nodes :
          (~is_leader(self) /\ is_leader(self)')
          => (AcquireReturned(self)' /\ last'.result)]_vars

ReleaseReturned(self) == last.op = "release_lock" /\ last.node = self

\* C12: release_lock on a node whose current_leader is not its own id
\* returns False and leaves every node's current_leader and lease_expiry
\* as they were; on a node recorded as leader it returns True, and a
\* second release_lock right after it returns False.
C12_IdempotentRelease ==
    [][\A self \in all_nodes :
          ReleaseReturned(self)'
          => /\ current_leader[self] # self
                => (~last'.result /\ UNCHANGED <<current_leader, lease_expiry>>)
             /\ current_leader[self] = self => last'.result
             /\ (ReleaseReturned(self) /\ last.result) => ~last'.result]_vars

\* C12 witness: release_lock returned False on a node that is not recorded
\* as leader, while another node holds a lease that is left alone.
C12_Witness ==
    /\ last.op = "release_lock"
    /\ ~last.result
    /\ last.leader_before = None
    /\ current_leader[last.node] = None
    /\ \E other \in all_nodes \ {last.node} : is_leader(other)

\* C13: whenever current_leader is the node's own id, release_lock returns
\* True and clears current_leader and lease_expiry, be the lease valid or
\* expired.
C13_ReleaseIgnoresLeaseStatus ==
    [][\A self \in all_nodes :
          (ReleaseReturned(self)' /\ current_leader[self] = self)
          => /\ last'.result
             /\ current_leader'[self] = None
             /\ lease_expiry'[self] = None]_vars

\* C13 witness: a node released after its lease had expired.
C13_Witness ==
    /\ last.op = "release_lock"
    /\ last.result
    /\ last.leader_before = last.node
    /\ last.expiry_before <= now
    /\ current_leader[last.node] = None
    /\ lease_expiry[last.node] = None

\* What is_leader() has to return: current_leader is the own id and
\* now < lease_expiry, strictly.
LeaderByLease(self) ==
    /\ current_leader[self] = self
    /\ lease_expiry[self] # None
    /\ now < lease_expiry[self]

\* A call that renews the lease of self has just returned True.
Renewed(self) ==
    /\ last.op \in {"acquire_lock", "extend_lease"}
    /\ last.node = self
    /\ last.result

\* C14: every is_leader() call returns True iff current_leader is the own
\* id and now < lease_expiry; from the instant now = lease_expiry on it is
\* False until the lease is renewed, without any other operation.
C14_IsLeaderByLease ==
    [][\A self \in all_nodes :
          /\ (last'.op = "is_leader" /\ last'.node = self)
                => (last'.result <=> LeaderByLease(self)')
          /\ (lease_expiry'[self] # None /\ now' >= lease_expiry'[self])
                => ~is_leader(self)'
          /\ (lease_expiry[self] # None /\ now >= lease_expiry[self]
                 /\ is_leader(self)')
                => Renewed(self)']_vars

\* C14 witness: is_leader() returned False at the very instant
\* now = lease_expiry on a node still recorded as leader.
C14_Witness ==
    /\ last.op = "is_leader"
    /\ ~last.result
    /\ current_leader[last.node] = last.node
    /\ now = lease_expiry[last.node]

\* C15: get_leader() returns current_leader when now < lease_expiry and
\* None in every other state, so an expired belief is never reported.
C15_GetLeaderValidated ==
    \A self \in all_nodes :
        (last.op = "get_leader" /\ last.node = self)
        => IF lease_expiry[self] # None /\ now < lease_expiry[self]
           THEN last.result = current_leader[self]
           ELSE last.result = None

\* C15 witness: get_leader() returned None on a node whose recorded lease
\* has expired.
C15_Witness ==
    /\ last.op = "get_leader"
    /\ last.result = None
    /\ current_leader[last.node] = last.node
    /\ lease_expiry[last.node] <= now

\* C18: an acquire_lock that returns True makes is_leader() True and
\* get_leader() the own id, and the node stays leader at every instant
\* until its lease expires, it releases, or it steps down in extend_lease.
C18_LeaderUntilExpiryReleaseStepDown ==
    [][\A self \in all_nodes :
          /\ (AcquireReturned(self)' /\ last'.result)
                => (is_leader(self)' /\ get_leader(self)' = self)
          /\ is_leader(self) => get_leader(self) = self
          /\ (is_leader(self) /\ ~is_leader(self)')
                => \/ now' >= lease_expiry[self]
                   \/ ReleaseReturned(self)' /\ last'.result
                   \/ /\ last'.op = "extend_lease"
                      /\ last'.node = self
                      /\ ~last'.result]_vars

\* C18 witness: a node that acquired is still leader one tick later, with
\* its lease about to run out.
C18_Witness ==
    /\ last.op = "tick"
    /\ \E self \in all_nodes :
          /\ is_leader(self)
          /\ get_leader(self) = self
          /\ lease_expiry[self] = now + 1

CallOps ==
    {"acquire_lock", "release_lock", "extend_lease", "set_network_partition",
     "is_leader", "get_leader"}

\* C19: an operation on the manager of one node leaves current_leader,
\* lease_expiry and network_partitions of every other node unchanged.
C19_NodeIsolation ==
    [][\A self \in all_nodes, other \in all_nodes :
          (last'.op \in CallOps /\ last'.node = self /\ other # self)
          => /\ current_leader'[other] = current_leader[other]
             /\ lease_expiry'[other] = lease_expiry[other]
             /\ network_partitions'[other] = network_partitions[other]]_vars

\* C19 witness: a node has acquired while another manager, with another
\* unreachable set, records no leader.
C19_Witness ==
    /\ last.op = "acquire_lock"
    /\ last.result
    /\ \E other \in all_nodes \ {last.node} :
          /\ current_leader[other] = None
          /\ lease_expiry[other] = None
          /\ network_partitions[other] # network_partitions[last.node]

\* C20: acquire_lock on a node that records a leader with a valid lease
\* returns False and changes nothing, also when the recorded leader is the
\* node itself (its lease is not renewed).
C20_ValidLeaseBlocksAcquire ==
    [][\A self \in all_nodes :
          (/\ AcquireReturned(self)'
           /\ current_leader[self] # None
           /\ lease_expiry[self] # None
           /\ now < lease_expiry[self])
          => /\ ~last'.result
             /\ UNCHANGED <<current_leader, lease_expiry,
                            network_partitions>>]_vars

\* C20 witness: a leader that could win an election called acquire_lock one
\* tick after it acquired; the call returned False and the lease was not
\* renewed.
C20_Witness ==
    /\ last.op = "acquire_lock"
    /\ ~last.result
    /\ is_leader(last.node)
    /\ lease_expiry[last.node] = now + 1
    /\ Cardinality(reachable_nodes(last.node)) > half
    /\ votes(last.node) > half

\* The arguments the constructor is said to reject are absent: node_id is
\* in the list, the list has no duplicates, lease_duration is positive.
ValidConfiguration(manager) ==
    /\ \E k \in 1..Len(manager.all_nodes) :
          manager.all_nodes[k] = manager.node_id
    /\ \A j \in 1..Len(manager.all_nodes), k \in 1..Len(manager.all_nodes) :
          manager.all_nodes[j] = manager.all_nodes[k] => j = k
    /\ manager.lease_duration > 0

\* C16: no manager exists whose node_id is not in its node list, whose
\* node list has duplicates or whose lease_duration is not positive.
C16_InvalidConfigurationRejected ==
    \A k \in 1..Len(constructed) : ValidConfiguration(constructed[k])

\* C17: the reachable nodes an acquire_lock call decides on are the ones
\* of a single unreachable set the manager had during the call, never a
\* mix of the set before and the set after a set_network_partition.
C17_NoMixedReachability ==
    frame.pc = "decide"
    => \E unreachable_nodes \in frame.seen :
          frame.reachable_nodes = all_nodes \ unreachable_nodes

\* The reachable set with the calling node always in it.
ReachableCountingSelf(self) ==
    {n \in all_nodes : n = self \/ n \notin network_partitions[self]}

\* No valid lease is recorded on self.
NoValidLeaseOn(self) ==
    lease_expiry[self] = None \/ now >= lease_expiry[self]

\* The votes of a node counted from a set of reachable nodes.
VotesFrom(self, reachable) ==
    1 + Cardinality({n \in reachable \ {self} : n > self})

\* C21: the majority test of acquire_lock and of extend_lease counts the
\* nodes n with n = node_id or n not in network_partitions, so the calling
\* node is counted also when its own id was passed to set_network_partition.
C21_SelfAlwaysReachable ==
    [][\A self \in all_nodes :
          /\ (AcquireReturned(self)' /\ NoValidLeaseOn(self))
                => (last'.result
                      <=> /\ Cardinality(ReachableCountingSelf(self)) > half
                          /\ VotesFrom(self, ReachableCountingSelf(self))
                                > half)
          /\ (last'.op = "extend_lease" /\ last'.node = self
                 /\ current_leader[self] = self)
                => (last'.result
                      <=> Cardinality(ReachableCountingSelf(self)) > half)]_vars

\* C22: with no valid lease recorded, acquire_lock returns True iff the
\* reachable nodes it collected are more than len(all_nodes) // 2 and
\* votes > len(all_nodes) // 2, votes being 1 plus the other reachable nodes
\* with a strictly greater id; on True current_leader is the own id and
\* lease_expiry is now + lease_duration.
C22_AcquireDecision ==
    [][\A self \in all_nodes :
          (AcquireReturned(self)' /\ NoValidLeaseOn(self))
          => /\ last'.result
                  <=> /\ Cardinality(reachable_nodes(self)) > half
                      /\ VotesFrom(self, reachable_nodes(self)) > half
             /\ last'.result
                  => /\ current_leader'[self] = self
                     /\ lease_expiry'[self] = now + lease_duration]_vars

\* C22 witness: a node with a non-empty unreachable set has acquired and
\* holds a lease of lease_duration from now.
C22_Witness ==
    /\ last.op = "acquire_lock"
    /\ last.result
    /\ network_partitions[last.node] # {}
    /\ current_leader[last.node] = last.node
    /\ lease_expiry[last.node] = now + lease_duration

\* C23: an acquire_lock that returns False leaves current_leader,
\* lease_expiry and network_partitions of the calling node as they were.
C23_FailedAcquireChangesNothing ==
    [][\A self \in all_nodes :
          (AcquireReturned(self)' /\ ~last'.result)
          => /\ current_leader'[self] = current_leader[self]
             /\ lease_expiry'[self] = lease_expiry[self]
             /\ network_partitions'[self] = network_partitions[self]]_vars

\* C23 witness: acquire_lock failed on a node whose own lease has expired;
\* the expired lease is still recorded.
C23_Witness ==
    /\ last.op = "acquire_lock"
    /\ ~last.result
    /\ current_leader[last.node] = last.node
    /\ lease_expiry[last.node] # None
    /\ lease_expiry[last.node] <= now

\* C24: extend_lease on a node whose current_leader is not its own id
\* returns False and changes nothing; on a node recorded as leader whose
\* reachable nodes are a strict majority it returns True, sets lease_expiry
\* to now + lease_duration, never earlier than it was, and keeps
\* current_leader.
C24_ExtendLease ==
    [][\A self \in all_nodes :
          (last'.op = "extend_lease" /\ last'.node = self)
          => /\ current_leader[self] # self
                  => /\ ~last'.result
                     /\ UNCHANGED <<current_leader, lease_expiry,
                                    network_partitions>>
             /\ (current_leader[self] = self
                    /\ Cardinality(reachable_nodes(self)) > half)
                  => /\ last'.result
                     /\ lease_expiry'[self] = now + lease_duration
                     /\ lease_expiry'[self] >= lease_expiry[self]
                     /\ current_leader'[self] = self]_vars

\* C24 witness: a renewal has moved lease_expiry forward.
C24_Witness ==
    /\ last.op = "extend_lease"
    /\ last.result
    /\ last.expiry_before < lease_expiry[last.node]
    /\ lease_expiry[last.node] = now + lease_duration
    /\ current_leader[last.node] = last.node

\* C25: network_partitions of a node changes only in a set_network_partition
\* call on that node.
C25_PartitionsOnlyBySetNetworkPartition ==
    [][\A self \in all_nodes :
          network_partitions'[self] # network_partitions[self]
          => (last'.op = "set_network_partition" /\ last'.node = self)]_vars

\* C25 witness: a leader has stepped down in extend_lease and its unreachable
\* set is still there.
C25_Witness ==
    /\ last.op = "extend_lease"
    /\ ~last.result
    /\ last.leader_before = last.node
    /\ network_partitions[last.node] # {}
    /\ Cardinality(reachable_nodes(last.node)) <= half

\* C26: has_majority(supporters, total) is supporters > total // 2, that is
\* 2 * supporters > total; acquire_lock and extend_lease return True only on
\* a node whose reachable nodes are more than half of all configured nodes,
\* and in a cluster of even size split in two halves neither returns True.
C26_QuorumArithmetic ==
    [][/\ \A supporters \in 0..MaxNodes, total \in 0..MaxNodes :
             has_majority(supporters, total) <=> 2 * supporters > total
       /\ (last'.op \in {"acquire_lock", "extend_lease"} /\ last'.result)
             => 2 * Cardinality(reachable_nodes(last'.node))
                    > Cardinality(all_nodes)
       /\ \A side \in SUBSET all_nodes :
             (/\ IsSplit(side)
              /\ 2 * Cardinality(side) = Cardinality(all_nodes)
              /\ last'.op \in {"acquire_lock", "extend_lease"})
             => ~last'.result]_vars

\* C26 witness: in a 4-node cluster split 2-vs-2 the leader elected before
\* the split has called extend_lease, which returned False.
C26_Witness ==
    /\ all_nodes = 1..4
    /\ IsSplit({1, 2})
    /\ last.op = "extend_lease"
    /\ ~last.result
    /\ last.leader_before = last.node

\* The nodes that count a strict majority of the cluster as reachable.
ReachingMajority ==
    {c \in all_nodes : 2 * Cardinality(reachable_nodes(c))
                          > Cardinality(all_nodes)}

\* C27: elect_leader returns the smallest id among the nodes that reach a
\* strict majority, None when there is none, and the node it returns wins
\* acquire_lock when no manager records a leader.
C27_ElectLeaderAgreesWithAcquire ==
    last.op = "elect_leader"
    => /\ ReachingMajority = {} => last.result = None
       /\ ReachingMajority # {}
            => /\ last.result \in ReachingMajority
               /\ \A c \in ReachingMajority : last.result <= c
               /\ current_leader[last.result] = None
                    => acquire_result(last.result)

\* C28: current_leader of a node is None or the node's own id; get_leader()
\* is None or the own id, and it is the own id exactly when is_leader().
C28_OwnIdOrNone ==
    /\ \A self \in all_nodes :
          /\ current_leader[self] \in {None, self}
          /\ get_leader(self) \in {None, self}
          /\ get_leader(self) = self <=> is_leader(self)
    /\ last.op = "get_leader" => last.result \in {None, last.node}

\* C28 witness: get_leader() has returned the own id on a leader while
\* another node is leader too.
C28_Witness ==
    /\ last.op = "get_leader"
    /\ last.result = last.node
    /\ is_leader(last.node)
    /\ \E other \in all_nodes \ {last.node} : is_leader(other)

\* C29: lease_expiry of a node is None iff its current_leader is None.
C29_LeaseIffLeader ==
    \A self \in all_nodes :
        lease_expiry[self] = None <=> current_leader[self] = None

\* C29 witness: a leader has released while its lease was valid; both
\* fields are None.
C29_Witness ==
    /\ last.op = "release_lock"
    /\ last.result
    /\ now < last.expiry_before
    /\ current_leader[last.node] = None
    /\ lease_expiry[last.node] = None

\* C30: set_network_partition leaves current_leader and lease_expiry as they
\* were, so is_leader() is what it was; a leader that reaches at most half of
\* the cluster stays leader until its lease expires or it calls extend_lease
\* (or release_lock of its own accord).
C30_PartitionLeavesLeadership ==
    [][\A self \in all_nodes :
          /\ (last'.op = "set_network_partition" /\ last'.node = self)
                => /\ UNCHANGED <<current_leader, lease_expiry>>
                   /\ is_leader(self)' <=> is_leader(self)
          /\ (/\ is_leader(self)
              /\ Cardinality(reachable_nodes(self)) <= half
              /\ ~is_leader(self)')
                => \/ now' >= lease_expiry[self]
                   \/ last'.op = "extend_lease" /\ last'.node = self
                   \/ ReleaseReturned(self)']_vars

\* C30 witness: set_network_partition has just cut a leader off from the
\* majority, and it is still leader.
C30_Witness ==
    /\ last.op = "set_network_partition"
    /\ is_leader(last.node)
    /\ Cardinality(reachable_nodes(last.node)) <= half

SetPartitionReturned(self) ==
    last.op = "set_network_partition" /\ last.node = self

\* C31: after set_network_partition(S) on a node, can_reach_node(n) is True
\* iff n is not an element of S, whatever the unreachable set was before; a
\* second call with the same list changes nothing, and the empty list makes
\* every node reachable.
C31_PartitionReplaces ==
    [][\A self \in all_nodes :
          SetPartitionReturned(self)'
          => /\ \A n \in all_nodes :
                   can_reach_node(self, n)'
                      <=> \A i \in 1..Len(last'.argument) :
                             last'.argument[i] # n
             /\ (SetPartitionReturned(self)
                    /\ last.argument = last'.argument)
                  => network_partitions' = network_partitions
             /\ last'.argument = <<>>
                  => \A n \in all_nodes : can_reach_node(self, n)']_vars

\* C31 witness: a leader has been given the empty list and reaches every
\* node, while another manager has a non-empty unreachable set.
C31_Witness ==
    /\ last.op = "set_network_partition"
    /\ last.argument = <<>>
    /\ last.leader_before = last.node
    /\ \A n \in all_nodes : can_reach_node(last.node, n)
    /\ \E other \in all_nodes \ {last.node} :
          network_partitions[other] # {}

\* The nodes whose id is among the len(all_nodes) // 2 largest ids.
LargestIds ==
    {n \in all_nodes : Cardinality({m \in all_nodes : m > n}) < half}

\* C32: a node whose id is among the len(all_nodes) // 2 largest ids of the
\* cluster never gets True from acquire_lock and never records itself as
\* leader.
C32_HighIdsNeverWin ==
    /\ \A n \in LargestIds : current_leader[n] = None
    /\ (last.op = "acquire_lock" /\ last.node \in LargestIds) => ~last.result

\* C32 witness: node5 of five nodes, which reaches all of them and records
\* no lease, has called acquire_lock and got False.
C32_Witness ==
    /\ all_nodes = 1..5
    /\ last.op = "acquire_lock"
    /\ last.node = 5
    /\ ~last.result
    /\ reachable_nodes(5) = all_nodes
    /\ lease_expiry[5] = None

\* C33: release_lock right after a successful acquire_lock on the same node
\* returns True and leaves current_leader and lease_expiry None, with the
\* node still reaching a majority and holding the votes; an acquire_lock
\* right after that release returns True and makes the node leader again.
C33_AcquireReleaseRoundTrip ==
    [][\A self \in all_nodes :
          /\ (AcquireReturned(self) /\ last.result /\ ReleaseReturned(self)')
                => /\ last'.result
                   /\ current_leader'[self] = None
                   /\ lease_expiry'[self] = None
                   /\ Cardinality(reachable_nodes(self)') > half
                   /\ VotesFrom(self, reachable_nodes(self)') > half
          /\ (/\ ReleaseReturned(self) /\ last.result
              /\ Cardinality(reachable_nodes(self)) > half
              /\ VotesFrom(self, reachable_nodes(self)) > half
              /\ AcquireReturned(self)')
                => /\ last'.result
                   /\ current_leader'[self] = self
                   /\ lease_expiry'[self] = now + lease_duration]_vars

\* C33 witness: a node has released the lease it took at this instant and
\* could take it again.
C33_Witness ==
    /\ last.op = "release_lock"
    /\ last.result
    /\ last.leader_before = last.node
    /\ last.expiry_before = now + lease_duration
    /\ current_leader[last.node] = None
    /\ lease_expiry[last.node] = None
    /\ acquire_result(last.node)

====
